---- MODULE Spec2Model ----
(***************************************************************************)
(* Clusterwise linear regression (src/clr.py): reassign_labels, clr,       *)
(* fuzzy_clr and best_clr as state machines.                               *)
(*                                                                         *)
(* Numbers.  Scores, objectives and responsibilities are floats in the     *)
(* source; here they are exact integers in a fixed unit:                   *)
(*   - a hard-CLR score is kept in units of 1/Scale, Scale = (NPoints!)^2, *)
(*     so that the squared distance to a cluster mean (a rational with     *)
(*     denominator |cluster|^2) is an integer;                             *)
(*   - obj of clr is kept as the SUM of the selected scores, i.e. in units *)
(*     of 1/(NPoints*Scale): np.mean divides by the constant NPoints;      *)
(*   - a responsibility q[i][c] is kept in units of 1e-6 (QUnit = 1.0).    *)
(* The regressor (lr.fit / lr.predict) is an external collaborator: a fit  *)
(* yields some prediction vector out of PredFns.                           *)
(***************************************************************************)
EXTENDS Integers, FiniteSets, Sequences, TLC

\* ---------------------------------------------------------------- bounds
NPoints == 2
MaxK == 2
MaxGroup == 2
MaxIterBound == 2
MaxTries == 3

Points == 1..NPoints
Clusters(kk) == 0..(kk - 1)
\* Python's None, and a name that is not bound yet
None == <<>>

\* values a score may take when the score matrix is an input of its own
ScoreVals == {0, 1}
\* group ids a caller may pass: any integers, negative ones included
GroupIds == (-1)..MaxGroup
\* what a slot of np.empty(..., dtype=int) may hold before it is written:
\* zeroed memory, or a stale word; two stale words may differ by one
Uninit == {0, 100000, 100001}

VARIABLES
  pc,           \* position of the running function
  k,            \* number of clusters
  constr,       \* None, or group id per point
  scores,       \* N x k score matrix
  labels,       \* label per point
  labels_prev,  \* clr: labels.copy() taken before the reassignment
  models,       \* clr: per cluster, the regressor's state
  preds,        \* clr: N x k predictions
  it,           \* loop index of clr / fuzzy_clr: iterations started so far
  max_iter,
  kmeans_X,
  broke,        \* TRUE iff the loop was left through `break`
  obj,          \* clr: returned objective
  weights,      \* clr: returned weights (counts; the divisor is NPoints)
  q,            \* fuzzy_clr: responsibilities
  q_prev,       \* fuzzy_clr: q.copy() taken before the E step
  num_tries,    \* best_clr
  i,            \* best_clr: number of tries made
  tries,        \* best_clr: the results clr_func returned, in order
  best_labels, best_models, best_weights, best_obj

vars == <<pc, k, constr, scores, labels, labels_prev, models, preds, it,
          max_iter, kmeans_X, broke, obj, weights, q, q_prev, num_tries, i,
          tries, best_labels, best_models, best_weights, best_obj>>

clrVars == <<labels_prev, models, preds, it, max_iter, kmeans_X, broke, obj,
             weights>>
fuzzyVars == <<q, q_prev>>
bestVars == <<num_tries, i, tries, best_labels, best_models, best_weights,
              best_obj>>

Unbound == <<>>
IdleClr ==
  /\ labels_prev = Unbound /\ models = <<>> /\ preds = <<>> /\ it = 0
  /\ max_iter = 0 /\ kmeans_X = 0 /\ broke = FALSE /\ obj = Unbound
  /\ weights = Unbound
IdleFuzzy == q = <<>> /\ q_prev = Unbound
IdleBest ==
  /\ num_tries = 0 /\ i = 0 /\ tries = <<>> /\ best_labels = Unbound
  /\ best_models = Unbound /\ best_weights = Unbound /\ best_obj = Unbound

\* ------------------------------------------------------- reassign_labels
Abs(n) == IF n < 0 THEN -n ELSE n

RECURSIVE SumOver(_, _)
SumOver(S, f) ==
  IF S = {} THEN 0
  ELSE LET e == CHOOSE x \in S : TRUE IN f[e] + SumOver(S \ {e}, f)

\* (mutation of argmin: the last index holding the minimum)
ArgminLast(v, kk) ==
  CHOOSE c \in Clusters(kk) :
    /\ \A d \in Clusters(kk) : v[c] <= v[d]
    /\ \A d \in Clusters(kk) : d > c => v[d] > v[c]

\* np.argmin of a vector indexed 0..kk-1: the first index holding the minimum
argmin(v, kk) ==
  CHOOSE c \in Clusters(kk) :
    /\ \A d \in Clusters(kk) : v[c] <= v[d]
    /\ \A d \in Clusters(kk) : d < c => v[d] > v[c]

\* the rows selected by the mask constr == c_id
Mask(con, c_id) == {p \in Points : con[p] = c_id}

\* np.mean(scores[mask], axis=0): a column's mean over the masked rows, kept
\* as its numerator; the denominator |mask| is the same for every column
ColMean(sc, mask, kk) == [c \in Clusters(kk) |-> SumOver(mask, [p \in mask |-> sc[p][c]])]

ConstrMax(con) == CHOOSE m \in {con[p] : p \in Points} : \A p \in Points : con[p] <= m

\* the loop of lines 16-17, from c_id up to constr.max(); an empty mask
\* writes nothing
RECURSIVE ReassignLoop(_, _, _, _, _)
ReassignLoop(lab, sc, con, kk, c_id) ==
  IF c_id > ConstrMax(con) THEN lab
  ELSE LET mask == Mask(con, c_id)
           best == argmin(ColMean(sc, mask, kk), kk)
           lab2 == [p \in Points |-> IF p \in mask THEN best ELSE lab[p]]
       IN ReassignLoop(lab2, sc, con, kk, c_id + 1)

\* the slots the loop writes: the points whose id is one of 0..constr.max()
Written(con) == {p \in Points : con[p] >= 0}

\* reassign_labels: the set of arrays it can return.  np.empty leaves the
\* label array uninitialized, so a slot the loop never writes keeps whatever
\* the allocation held (the loop reads no slot, so it is run once and the
\* unwritten slots are filled in afterwards).
reassign_labels(sc, con, kk) ==
  IF con = None
    THEN {[p \in Points |-> argmin(sc[p], kk)]}
    ELSE LET looped == ReassignLoop([p \in Points |-> 0], sc, con, kk, 0)
         IN {[p \in Points |-> IF p \in Written(con) THEN looped[p] ELSE lab0[p]] :
               lab0 \in [Points -> Uninit]}

ScoreMatrices(kk) == [Points -> [Clusters(kk) -> ScoreVals]]
ConstrVectors == {None} \cup [Points -> GroupIds]

InitReassign ==
  /\ pc = "reassign_labels"
  /\ k \in 1..MaxK
  /\ scores \in ScoreMatrices(k)
  /\ constr \in ConstrVectors
  /\ labels = Unbound
  /\ IdleClr /\ IdleFuzzy /\ IdleBest

ReassignCall ==
  /\ pc = "reassign_labels"
  /\ labels' \in reassign_labels(scores, constr, k)
  /\ pc' = "reassigned"
  /\ UNCHANGED <<k, constr, scores, clrVars, fuzzyVars, bestVars>>

NextReassign == ReassignCall
SpecReassign == InitReassign /\ [][NextReassign]_vars

\* C1: for every score matrix and every constraint vector the returned labels
\* all lie in [0, k), and all points of a group id present in the constraints
\* share one label, the first index minimising the group's column means.
GroupIdsPresent == {constr[p] : p \in Points}
GroupColSum(g, c) == SumOver(Mask(constr, g), [p \in Points |-> scores[p][c]])
IsGroupArgmin(g, c) ==
  /\ c \in Clusters(k)
  /\ \A d \in Clusters(k) : GroupColSum(g, c) <= GroupColSum(g, d)
  /\ \A d \in Clusters(k) : d < c => GroupColSum(g, d) > GroupColSum(g, c)
C1_GroupsShareArgmin ==
  (pc = "reassigned" /\ constr # None) =>
    /\ \A p \in Points : labels[p] \in Clusters(k)
    /\ \A g \in GroupIdsPresent :
         \A p \in Mask(constr, g) : IsGroupArgmin(g, labels[p])

\* C7: without constraints every point gets the first index holding the
\* minimum of its k scores, and the score matrix is left as it was.
IsFirstMin(row, c) ==
  /\ c \in Clusters(k)
  /\ \A d \in Clusters(k) : row[c] <= row[d]
  /\ \A d \in Clusters(k) : d < c => row[d] > row[c]
C7_UnconstrainedArgmin ==
  [][(pc = "reassign_labels" /\ constr = None) =>
       /\ scores' = scores
       /\ \A p \in Points : IsFirstMin(scores[p], labels'[p])]_vars
C7_Witness ==
  /\ pc = "reassigned" /\ constr = None /\ k = 2
  /\ \E p, r \in Points :
       /\ scores[p][0] = scores[p][1] /\ labels[p] = 0
       /\ scores[r][1] < scores[r][0] /\ labels[r] = 1

\* ------------------------------------------------------------------- clr
\* the data set: one feature per point, and the targets
Xdata == [p \in Points |-> p]
ydata == [p \in Points |-> p % 2]
\* the prediction vectors a fit may yield: a constant, or the targets themselves
PredFns == {[p \in Points |-> v] : v \in {0, 1}} \cup {ydata}
\* constraint vectors handed to clr
\* constraint vectors handed to clr: none, one group, two groups, or one
\* group and one point with a negative id
ClrConstrVectors ==
  {None} \cup {[p \in Points |-> 0]} \cup {[p \in Points |-> p % 2]}
  \cup {[p \in Points |-> IF p = r THEN -1 ELSE 0] : r \in Points}
\* compactness weights handed to clr
KmeansWeights == {0, 1}
\* what np.empty((N, k)) may hold before the first scoring
UninitScores == {0, 1}

RECURSIVE Fact(_)
Fact(n) == IF n <= 1 THEN 1 ELSE n * Fact(n - 1)
Scale == Fact(NPoints) * Fact(NPoints)

\* the points selected by the mask labels == cl_idx
Members(lab, cl_idx) == {p \in Points : lab[p] = cl_idx}

\* (mutation of TrainingSet: the regressor is fit on every point)
TrainingSetAll(lab, cl_idx) == Points
\* X[labels == cl_idx], y[labels == cl_idx]: the rows a cluster is fit on
TrainingSet(lab, cl_idx) == Members(lab, cl_idx)

\* (mutation of FitTargets: the emptiness test of line 98 is missing)
FitTargetsAll(lab, kk) == Clusters(kk)
\* the clusters line 98 does not skip
FitTargets(lab, kk) == {c \in Clusters(kk) : Cardinality(Members(lab, c)) # 0}

Unfitted == [fitted |-> FALSE, fit_on |-> {}, pred |-> <<>>]

\* (y - preds[:, cl_idx]) ** 2, in units of 1/Scale
SqResidual(pred, p) == Scale * (ydata[p] - pred[p]) * (ydata[p] - pred[p])

\* np.sum(np.square(X - center), axis=1) with center = np.mean(X[mask]), in
\* units of 1/Scale: (x - s/n)^2 = ((n*x - s) / n)^2
SqDistToCenter(mask, p) ==
  LET n == Cardinality(mask)
      s == SumOver(mask, Xdata)
      d == (Fact(NPoints) \div n) * (n * Xdata[p] - s)
  IN d * d

\* np.allclose(a, b) on integer arrays: |a - b| <= 1e-8 + 1e-5 * |b|.  For
\* integers this is 100000 * |a - b| <= |b|, i.e. |a - b| <= |b| div 100000.
allclose(a, b) ==
  \A p \in Points : Abs(a[p] - b[p]) <= Abs(b[p]) \div 100000

InitClr ==
  /\ k \in 1..MaxK
  /\ labels \in [Points -> Clusters(k)]
  /\ constr \in ClrConstrVectors
  /\ max_iter \in 0..MaxIterBound
  /\ kmeans_X \in KmeansWeights
  /\ models = [c \in Clusters(k) |-> Unfitted]
  /\ \E u \in UninitScores : scores = [p \in Points |-> [c \in Clusters(k) |-> u]]
  /\ preds = [p \in Points |-> [c \in Clusters(k) |-> 0]]
  /\ it = 0
  /\ broke = FALSE
  /\ pc = IF max_iter = 0 THEN "finalize" ELSE "fit"
  /\ labels_prev = Unbound /\ obj = Unbound /\ weights = Unbound
  /\ IdleFuzzy /\ IdleBest

\* lines 97-100: rebuild the models of the clusters that have points
FitModels ==
  /\ pc = "fit"
  /\ \E fit \in [Clusters(k) -> PredFns] :
       models' = [c \in Clusters(k) |->
                    IF c \in FitTargets(labels, k)
                      THEN [fitted |-> TRUE,
                            fit_on |-> TrainingSet(labels, c),
                            pred |-> fit[c]]
                      ELSE models[c]]
  /\ pc' = "score"
  /\ UNCHANGED <<k, constr, scores, labels, labels_prev, preds, it, max_iter,
                 kmeans_X, broke, obj, weights, fuzzyVars, bestVars>>

\* line 103 on a regressor that was never fit: predict raises
PredictUnfitted ==
  /\ pc = "score"
  /\ \E c \in Clusters(k) : ~models[c].fitted
  /\ pc' = "NotFittedError"
  /\ UNCHANGED <<k, constr, scores, labels, labels_prev, models, preds, it,
                 max_iter, kmeans_X, broke, obj, weights, fuzzyVars, bestVars>>

\* lines 102-110: predictions and scores of every cluster
ScorePoints ==
  /\ pc = "score"
  /\ \A c \in Clusters(k) : models[c].fitted
  /\ preds' = [p \in Points |-> [c \in Clusters(k) |-> models[c].pred[p]]]
  /\ scores' = [p \in Points |-> [c \in Clusters(k) |->
                  SqResidual(models[c].pred, p)
                  + (IF Cardinality(Members(labels, c)) # 0 /\ kmeans_X > 0
                       THEN kmeans_X * SqDistToCenter(Members(labels, c), p)
                       ELSE 0)]]
  /\ pc' = "reassign"
  /\ UNCHANGED <<k, constr, labels, labels_prev, models, it, max_iter,
                 kmeans_X, broke, obj, weights, fuzzyVars, bestVars>>

\* lines 111-112 and 119-120, and the loop head of line 95
ReassignPoints ==
  /\ pc = "reassign"
  /\ labels_prev' = labels
  /\ labels' \in reassign_labels(scores, constr, k)
  /\ broke' = allclose(labels', labels_prev')
  /\ it' = it + 1
  /\ pc' = IF broke' \/ it' = max_iter THEN "finalize" ELSE "fit"
  /\ UNCHANGED <<k, constr, scores, models, preds, max_iter, kmeans_X, obj,
                 weights, fuzzyVars, bestVars>>

\* line 121 with a label that is no column index
ObjIndexError ==
  /\ pc = "finalize"
  /\ \E p \in Points : labels[p] \notin Clusters(k)
  /\ pc' = "IndexError"
  /\ UNCHANGED <<k, constr, scores, labels, labels_prev, models, preds, it,
                 max_iter, kmeans_X, broke, obj, weights, fuzzyVars, bestVars>>

\* lines 121-129: objective (sum; the mean's divisor is NPoints) and weights
\* (counts; the divisor is their sum)
Finalize ==
  /\ pc = "finalize"
  /\ \A p \in Points : labels[p] \in Clusters(k)
  /\ obj' = SumOver(Points, [p \in Points |-> scores[p][labels[p]]])
  /\ weights' = [c \in Clusters(k) |-> Cardinality(Members(labels, c))]
  /\ pc' = "returned"
  /\ UNCHANGED <<k, constr, scores, labels, labels_prev, models, preds, it,
                 max_iter, kmeans_X, broke, fuzzyVars, bestVars>>

NextClr ==
  \/ FitModels
  \/ PredictUnfitted
  \/ ScorePoints
  \/ ReassignPoints
  \/ ObjIndexError
  \/ Finalize
SpecClr == InitClr /\ [][NextClr]_vars

LoopExited == pc \in {"finalize", "returned", "IndexError"}

\* C2: the loop runs at most max_iter iterations, and it is left before the
\* cap exactly when the reassigned labels are elementwise identical to the
\* labels the iteration started with.
C2_StopsIffLabelsIdentical ==
  /\ it <= max_iter
  /\ (pc \in {"fit", "score", "reassign"}) => (~broke /\ it < max_iter)
  /\ LoopExited => (broke \/ it = max_iter)
  /\ (LoopExited /\ it >= 1) => (broke <=> labels = labels_prev)
  /\ (pc = "fit" /\ it >= 1) => labels # labels_prev

\* C6: with k = 1 the loop converges on iteration 1 and clr returns the
\* in-sample mean squared error of the one model fit on all points.
C6_SingleClusterMSE ==
  (k = 1 /\ max_iter >= 1 /\ pc \in {"fit", "returned", "IndexError"} /\ it >= 1) =>
    /\ it = 1 /\ broke /\ pc = "returned"
    /\ models[0].fit_on = Points
    /\ obj = SumOver(Points, [p \in Points |-> SqResidual(models[0].pred, p)])

\* C8: in every iteration a cluster without points is not refit (its model
\* stays exactly as it was) and gets no compactness penalty in its score
\* column, for as long as it has no members.
C8_EmptyClusterLeftStale ==
  [][/\ pc = "fit" =>
          \A c \in Clusters(k) : Members(labels, c) = {} => models'[c] = models[c]
     /\ (pc = "score" /\ pc' = "reassign") =>
          \A c \in Clusters(k) : Members(labels, c) = {} =>
            \A p \in Points : scores'[p][c] = SqResidual(models[c].pred, p)]_vars
C8_Witness ==
  /\ pc = "reassign" /\ it >= 1 /\ kmeans_X > 0 /\ k = 2
  /\ \A p \in Points : labels[p] \in Clusters(k)
  /\ \E c \in Clusters(k) :
       /\ Members(labels, c) = {}
       /\ models[c].fitted /\ models[c].fit_on # {}

\* the score of point p under cluster c's model and the labeling lab
ScoreUnder(lab, c, p) ==
  SqResidual(models[c].pred, p)
  + (IF kmeans_X > 0 THEN kmeans_X * SqDistToCenter(Members(lab, c), p) ELSE 0)

\* C9: when clr returns after a break, the model of every non-empty cluster
\* was last fit on exactly the points the returned labels give that cluster,
\* and obj is the mean score of those models under the returned labels; when
\* it returns at the cap, the models were fit on the labeling that preceded
\* the last reassignment.
C9_ModelsMatchLabels ==
  /\ (pc = "returned" /\ broke) =>
       /\ \A c \in Clusters(k) : Members(labels, c) # {} =>
            models[c].fitted /\ models[c].fit_on = Members(labels, c)
       /\ obj = SumOver(Points, [p \in Points |-> ScoreUnder(labels, labels[p], p)])
  /\ (pc = "returned" /\ ~broke /\ it >= 1) =>
       /\ labels # labels_prev
       /\ \A c \in Clusters(k) : Members(labels_prev, c) # {} =>
            models[c].fitted /\ models[c].fit_on = Members(labels_prev, c)
C9_Witness ==
  /\ pc = "returned" /\ broke /\ it = 2 /\ k = 2
  /\ \A c \in Clusters(k) : Members(labels, c) # {}
  /\ constr # None

\* ------------------------------------------------------------- fuzzy_clr
\* Responsibilities in units of 1e-6.  The M step and the E step are float
\* computations on X, y and the regressors; the E step is taken to yield any
\* row-normalised matrix over the levels below, which lie 0, 8, 12 and 20
\* units apart around 0.5.
QOne == 1000000
QLevels == {500000, 500008, 500020}
QRows == {[c \in Clusters(2) |-> IF c = 0 THEN a ELSE QOne - a] : a \in QLevels}
QMatrices == [Points -> QRows]

\* (mutation of allclose_q: the absolute tolerance alone)
allclose_q_abs(a, b) ==
  \A p \in Points : \A c \in Clusters(2) : Abs(a[p][c] - b[p][c]) <= 10
\* np.allclose(a, b, atol=1e-5) with the default rtol=1e-5:
\* |a - b| <= 1e-5 + 1e-5 * |b|, in units of 1e-6: |A - B| <= 10 + B / 100000
allclose_q(a, b) ==
  \A p \in Points : \A c \in Clusters(2) :
    Abs(a[p][c] - b[p][c]) <= 10 + (Abs(b[p][c]) \div 100000)

\* np.argmax of a row: the first index holding the maximum
argmax(v, kk) ==
  CHOOSE c \in Clusters(kk) :
    /\ \A d \in Clusters(kk) : v[c] >= v[d]
    /\ \A d \in Clusters(kk) : d < c => v[d] < v[c]

IdleClrInFuzzy ==
  /\ constr = None /\ scores = <<>> /\ labels_prev = Unbound /\ models = <<>>
  /\ preds = <<>> /\ kmeans_X = 0 /\ obj = Unbound /\ weights = Unbound

InitFuzzy ==
  /\ k = 2
  /\ q \in QMatrices
  /\ q_prev = Unbound
  /\ max_iter \in 0..MaxIterBound
  /\ it = 0
  /\ broke = FALSE
  /\ labels = Unbound
  /\ pc = IF max_iter = 0 THEN "fuzzy_finalize" ELSE "fuzzy_iter"
  /\ IdleClrInFuzzy /\ IdleBest

\* lines 45-72: the M step reads q, the E step overwrites it after the copy
FuzzyIteration ==
  /\ pc = "fuzzy_iter"
  /\ q_prev' = q
  /\ q' \in QMatrices
  /\ broke' = allclose_q(q_prev', q')
  /\ it' = it + 1
  /\ pc' = IF broke' \/ it' = max_iter THEN "fuzzy_finalize" ELSE "fuzzy_iter"
  /\ UNCHANGED <<k, constr, scores, labels, labels_prev, models, preds,
                 max_iter, kmeans_X, obj, weights, bestVars>>

\* lines 76-82: hard labels from the last q
FuzzyFinalize ==
  /\ pc = "fuzzy_finalize"
  /\ labels' = [p \in Points |-> argmax(q[p], k)]
  /\ pc' = "fuzzy_returned"
  /\ UNCHANGED <<k, constr, scores, labels_prev, models, preds, it, max_iter,
                 kmeans_X, broke, obj, weights, fuzzyVars, bestVars>>

NextFuzzy == FuzzyIteration \/ FuzzyFinalize
SpecFuzzy == InitFuzzy /\ [][NextFuzzy]_vars

FuzzyExited == pc \in {"fuzzy_finalize", "fuzzy_returned"}

\* C3 (as stated): the loop is left early exactly when every entry of q after
\* the E step is within 1e-5 of q before the M step; else max_iter iterations.
WithinAtol(a, b) ==
  \A p \in Points : \A c \in Clusters(k) : Abs(a[p][c] - b[p][c]) <= 10
C3_StopsIffWithinAtol ==
  /\ (FuzzyExited /\ it >= 1) => (broke <=> WithinAtol(q_prev, q))
  /\ (pc = "fuzzy_iter" /\ it >= 1) => ~WithinAtol(q_prev, q)
  /\ (FuzzyExited /\ ~broke) => it = max_iter

\* C3 (amended): the loop is left early exactly when every entry satisfies
\* |q_prev - q| <= 1e-5 + 1e-5 * |q|; else it runs max_iter iterations.
WithinAtolRtol(a, b) ==
  \A p \in Points : \A c \in Clusters(k) :
    100000 * Abs(a[p][c] - b[p][c]) <= 100000 * 10 + Abs(b[p][c])
C3_StopsIffWithinAtolRtol ==
  /\ (FuzzyExited /\ it >= 1) => (broke <=> WithinAtolRtol(q_prev, q))
  /\ (pc = "fuzzy_iter" /\ it >= 1) => ~WithinAtolRtol(q_prev, q)
  /\ (FuzzyExited /\ ~broke) => it = max_iter
  /\ it <= max_iter
C3_Witness ==
  /\ pc = "fuzzy_returned" /\ broke /\ it < max_iter
  /\ ~WithinAtol(q_prev, q)

\* -------------------------------------------------------------- best_clr
\* a float objective: finite (val), +inf or nan
Finite(v) == [kind |-> "finite", val |-> v]
Inf == [kind |-> "inf", val |-> 0]
NaN == [kind |-> "nan", val |-> 0]
\* objectives a try may return: clr's mean score overflows to inf, fuzzy_clr's
\* log-likelihood is nan once a variance collapses to 0
ObjVals == {Finite(0), Finite(1), Inf, NaN}

\* a < b on floats
Less(a, b) ==
  /\ a.kind # "nan" /\ b.kind # "nan"
  /\ \/ a.kind = "finite" /\ b.kind = "inf"
     \/ a.kind = "finite" /\ b.kind = "finite" /\ a.val < b.val

\* what the t-th call of clr_func returns: three fresh objects and a float
TryResult(t, o) ==
  [labels |-> <<"labels", t>>, models |-> <<"models", t>>,
   weights |-> <<"weights", t>>, obj |-> o]

IdleClrInBest ==
  /\ k = 1 /\ constr = None /\ scores = <<>> /\ labels = Unbound
  /\ IdleClr /\ IdleFuzzy

InitBest ==
  /\ num_tries \in 0..MaxTries
  /\ i = 0
  /\ tries = <<>>
  /\ best_obj = Inf
  /\ best_labels = Unbound /\ best_models = Unbound /\ best_weights = Unbound
  /\ pc = "best_loop"
  /\ IdleClrInBest

\* lines 135-141: one try
BestTry ==
  /\ pc = "best_loop"
  /\ i < num_tries
  /\ \E o \in ObjVals :
       LET r == TryResult(i + 1, o) IN
       /\ tries' = Append(tries, r)
       /\ IF Less(r.obj, best_obj)
            THEN /\ best_obj' = r.obj
                 /\ best_labels' = r.labels
                 /\ best_models' = r.models
                 /\ best_weights' = r.weights
            ELSE UNCHANGED <<best_obj, best_labels, best_models, best_weights>>
  /\ i' = i + 1
  /\ UNCHANGED <<pc, num_tries, k, constr, scores, labels, clrVars, fuzzyVars>>

\* line 142 with the best_* names bound
BestReturn ==
  /\ pc = "best_loop"
  /\ i = num_tries
  /\ best_labels # Unbound
  /\ pc' = "best_returned"
  /\ UNCHANGED <<k, constr, scores, labels, clrVars, fuzzyVars, bestVars>>

\* line 142 when no try ever passed the test of line 137
BestReturnUnbound ==
  /\ pc = "best_loop"
  /\ i = num_tries
  /\ best_labels = Unbound
  /\ pc' = "UnboundLocalError"
  /\ UNCHANGED <<k, constr, scores, labels, clrVars, fuzzyVars, bestVars>>

NextBest == BestTry \/ BestReturn \/ BestReturnUnbound
SpecBest == InitBest /\ [][NextBest]_vars

BestFinished == pc \in {"best_returned", "UnboundLocalError"}
\* a <= b on floats
LessEq(a, b) ==
  /\ a.kind # "nan" /\ b.kind # "nan"
  /\ \/ b.kind = "inf"
     \/ a.kind = "finite" /\ b.kind = "finite" /\ a.val <= b.val
ReturnsTry(t) ==
  /\ pc = "best_returned"
  /\ best_labels = tries[t].labels /\ best_models = tries[t].models
  /\ best_weights = tries[t].weights /\ best_obj = tries[t].obj

\* C4: best_clr returns the try with the lowest objective, the first one on
\* ties, so the returned objective is <= the objective of every try.
C4_ReturnsLowest ==
  (BestFinished /\ num_tries >= 1) =>
    \E t \in 1..num_tries :
      /\ ReturnsTry(t)
      /\ \A u \in 1..num_tries : LessEq(best_obj, tries[u].obj)
      /\ \A u \in 1..(t - 1) : tries[u].obj # tries[t].obj

\* C5: with num_tries = 1 best_clr returns exactly what the single call of the
\* optimizer returned.
C5_SingleTryIsTheCall ==
  (BestFinished /\ num_tries = 1) => ReturnsTry(1)

\* C10: for every num_tries >= 1 and every sequence of objectives best_clr
\* returns a result, and its four components come from one and the same try.
C10_ReturnsOneTry ==
  (BestFinished /\ num_tries >= 1) =>
    /\ pc = "best_returned"
    /\ \E t \in 1..num_tries : ReturnsTry(t)

\* ----------------------------------------------------------- whole module
Init == InitReassign \/ InitClr \/ InitFuzzy \/ InitBest
Next == NextReassign \/ NextClr \/ NextFuzzy \/ NextBest
Spec == Init /\ [][Next]_vars

====
